---- MODULE Spec2Model ----
(***************************************************************************)
(* The websocket middleware of market_realtime: the ConnectionManager      *)
(* registry (active_connections, symbol_subscriptions,                     *)
(* client_subscriptions), the two websocket endpoints, the                 *)
(* /broadcast/orderbook ingestion path with its persistence and cache      *)
(* writes, and the Redis cache manager it drives.                          *)
(*                                                                         *)
(* The program is a single asyncio event loop: a coroutine runs without    *)
(* interruption up to its next await of real I/O (a websocket send or      *)
(* receive, a Redis command, a database write).  Every action below is one *)
(* such run: it starts where a task was suspended and ends at the task's   *)
(* next suspension point (or at its end).                                  *)
(***************************************************************************)
EXTENDS Integers, Sequences, FiniteSets, TLC

\* ------------------------------------------------------------- bounds
NumSockets == 2
NumPathIds == 1
NumSymbols == 2
NumBroadcasts == 2
MaxOps == 2
\* With the managers set: connections opened, client requests received.
MaxConns == 1
MaxReqs == 1

Sockets == 1..NumSockets
PathIds == 1..NumPathIds
Symbols == 1..NumSymbols
Tasks == 1..NumBroadcasts
None == 0
\* The ticks a key written with ttl_seconds lives, and the age of a key that
\* was never written.
TtlTicks == 2
Never == -1

\* The id websocket_endpoint_simple generates for socket w: unique per socket.
UuidOf(w) == NumPathIds + w
ClientIds == 1..(NumPathIds + NumSockets)

\* Raw order books a producer may post: Bid and Ask lists of [price, quantity].
NormalBook == [Bid |-> << <<100, 1>>, <<99, 3>> >>, Ask |-> << <<101, 2>> >>]
EmptyBidBook == [Bid |-> << >>, Ask |-> << <<101, 2>> >>]
MissingAskBook == [Bid |-> << <<100, 1>> >>]
NegativeBook == [Bid |-> << <<-5, 1>> >>, Ask |-> << <<101, -2>> >>]
CrossedBook == [Bid |-> << <<102, 1>>, <<100, 2>> >>, Ask |-> << <<101, 2>> >>]
ZeroMidBook == [Bid |-> << <<-3, 1>> >>, Ask |-> << <<3, 2>>, <<4, 1>> >>]
ShortLevelBook ==
  [Bid |-> << <<99, 1>>, <<100, 2>>, <<105>> >>, Ask |-> << <<101, 2>> >>]

VARIABLES
  active_connections,    \* client_id -> websocket (a socket of Sockets)
  symbol_subscriptions,  \* symbol -> set of client_ids
  client_subscriptions,  \* client_id -> set of symbols
  db_manager,            \* TRUE when the global db_manager is set
  cache_manager,         \* TRUE when the global cache_manager is set
  wsOpen,                \* socket -> the transport is still open
  htask,                 \* socket -> state of its endpoint coroutine
  btask,                 \* task -> state of one /broadcast/orderbook request
  latest,                \* symbol -> value of orderbook:{symbol}:latest
  history,               \* symbol -> list orderbook:{symbol}:history, head first
  db_records,            \* records handed to the persistence sink
  delivered,             \* socket -> messages sent to the client, in order
  ingested,              \* number of broadcast requests received so far
  books,                 \* the order books the producers post
  opsLeft,               \* client requests the sockets may still send
  connsLeft,             \* websocket connections that may still be opened
  latest_ttl,            \* symbol -> ticks before the latest key expires
  history_ttl,           \* symbol -> ticks before the history key expires
  cached_ago,            \* symbol -> ticks since the latest key was written
  cache_read,            \* the last get_cached_order_book_history call
  torn                   \* sockets whose registration a disconnect removed

vars == << active_connections, symbol_subscriptions, client_subscriptions,
           db_manager, cache_manager, wsOpen, htask, btask, latest, history,
           db_records, delivered, ingested, books, opsLeft, connsLeft,
           latest_ttl, history_ttl, cached_ago, cache_read, torn >>

\* ------------------------------------------------------ dict helpers
EmptyDict == [x \in {} |-> None]
Put(f, k, v) == [x \in (DOMAIN f) \cup {k} |-> IF x = k THEN v ELSE f[x]]
Del(f, k) == [x \in (DOMAIN f) \ {k} |-> f[x]]

Reg == [ac |-> active_connections, ss |-> symbol_subscriptions,
        cs |-> client_subscriptions]

\* -------------------------------------------- ConnectionManager registry
\* connect, after websocket.accept(): both entries are assigned, whatever
\* was registered under client_id before.
connect(R, w, c) ==
  [ac |-> Put(R.ac, c, w), ss |-> R.ss, cs |-> Put(R.cs, c, {})]

\* A disconnect that drops the whole subscriber set of each of the client's
\* symbols instead of discarding the one client.
disconnect_dropping_sets(R, c) ==
  LET syms == IF c \in DOMAIN R.cs THEN R.cs[c] ELSE {}
  IN  [ac |-> IF c \in DOMAIN R.ac THEN Del(R.ac, c) ELSE R.ac,
       ss |-> [s \in (DOMAIN R.ss) \ syms |-> R.ss[s]],
       cs |-> IF c \in DOMAIN R.cs THEN Del(R.cs, c) ELSE R.cs]

\* A disconnect that deletes the connection and cleans the subscriber sets
\* but keeps the client's own entry of client_subscriptions.
disconnect_keeping_entry(R, c) ==
  LET syms == IF c \in DOMAIN R.cs THEN R.cs[c] ELSE {}
      keep == {s \in DOMAIN R.ss : ~(s \in syms /\ R.ss[s] \ {c} = {})}
  IN  [ac |-> IF c \in DOMAIN R.ac THEN Del(R.ac, c) ELSE R.ac,
       ss |-> [s \in keep |-> IF s \in syms THEN R.ss[s] \ {c} ELSE R.ss[s]],
       cs |-> R.cs]

\* disconnect: the symbols walked are those of client_subscriptions[client_id];
\* a subscriber set left empty is deleted from symbol_subscriptions.
disconnect(R, c) ==
  LET syms == IF c \in DOMAIN R.cs THEN R.cs[c] ELSE {}
      keep == {s \in DOMAIN R.ss : ~(s \in syms /\ R.ss[s] \ {c} = {})}
  IN  [ac |-> IF c \in DOMAIN R.ac THEN Del(R.ac, c) ELSE R.ac,
       ss |-> [s \in keep |-> IF s \in syms THEN R.ss[s] \ {c} ELSE R.ss[s]],
       cs |-> IF c \in DOMAIN R.cs THEN Del(R.cs, c) ELSE R.cs]

\* The cleanup loop of broadcast_to_symbol: disconnect every failed client.
RECURSIVE disconnect_all(_, _)
disconnect_all(R, S) ==
  IF S = {} THEN R
  ELSE LET c == CHOOSE x \in S : TRUE
       IN  disconnect_all(disconnect(R, c), S \ {c})

\* A registration that fills only one direction of the index: the symbol's
\* subscriber set, not the client's symbol set.
register_one_direction(R, c, s) ==
  [ac |-> R.ac,
   ss |-> Put(R.ss, s, (IF s \in DOMAIN R.ss THEN R.ss[s] ELSE {}) \cup {c}),
   cs |-> R.cs]

\* The registry part of subscribe_to_symbol (lines 107-111), for a client
\* that passed the active_connections check.
register(R, c, s) ==
  [ac |-> R.ac,
   ss |-> Put(R.ss, s, (IF s \in DOMAIN R.ss THEN R.ss[s] ELSE {}) \cup {c}),
   cs |-> [R.cs EXCEPT ![c] = @ \cup {s}]]

\* An unsubscribe that deletes the symbol's whole subscriber set.
unregister_dropping_set(R, c, s) ==
  [ac |-> R.ac,
   ss |-> IF s \in DOMAIN R.ss THEN Del(R.ss, s) ELSE R.ss,
   cs |-> IF c \in DOMAIN R.cs THEN [R.cs EXCEPT ![c] = @ \ {s}] ELSE R.cs]

\* The registry part of unsubscribe_from_symbol (lines 155-161).
unregister(R, c, s) ==
  LET ss1 == IF s \in DOMAIN R.ss
             THEN IF R.ss[s] \ {c} = {} THEN Del(R.ss, s)
                  ELSE [R.ss EXCEPT ![s] = @ \ {c}]
             ELSE R.ss
  IN  [ac |-> R.ac, ss |-> ss1,
       cs |-> IF c \in DOMAIN R.cs THEN [R.cs EXCEPT ![c] = @ \ {s}] ELSE R.cs]

\* ------------------------------------------------------------ messages
\* A message sent to a client.  seq is the ingestion number of the snapshot
\* it carries (None for a message without a snapshot); src tells a live
\* fan-out message from the backfill's copy of the cached latest snapshot,
\* which go out with the same type.
Msg(type, symbol, seq, src) ==
  [type |-> type, symbol |-> symbol, seq |-> seq, src |-> src]
NoMsg == Msg("none", None, None, "none")

\* A Redis key that is not set, and the data of a task that has none yet.
Absent == [absent |-> TRUE]
NoData == [seq |-> None]

\* What is cached for a snapshot (cache_orderbook_data, lines 282-287).
CacheData(s, d) == [symbol |-> s, timestamp |-> d.seq, data |-> d]

\* get_cached_order_book_data_today: the entries of the history list that
\* carry a 'time' key (that of today: every entry of a run is of today).
RECURSIVE FilterToday(_)
FilterToday(h) ==
  IF h = << >> THEN << >>
  ELSE IF "time" \in DOMAIN Head(h)
       THEN << Head(h) >> \o FilterToday(Tail(h))
       ELSE FilterToday(Tail(h))

get_cached_order_book_data_today(s, ok) ==
  IF ok THEN FilterToday(history[s]) ELSE << >>

\* get_cached_order_book_data: the latest slot; None when the key is not set
\* or Redis raised.
get_cached_order_book_data(s, ok) == IF ok THEN latest[s] ELSE Absent

\* ------------------------------------------- iterators of fan-outs
\* A fan-out suspended in a send holds an iterator over the set object that
\* was symbol_subscriptions[symbol] when its loop began.  When the registry
\* goes from R to R2: the set object is detached once its key is deleted
\* (it is then empty for good), and a client leaves `stable` once removed.
Observe(bt, R, R2) ==
  [b \in DOMAIN bt |->
     IF bt[b].pc # "send" THEN bt[b]
     ELSE LET s == bt[b].symbol
          IN  [bt[b] EXCEPT
                 !.detached = @ \/ (s \in DOMAIN R.ss /\ s \notin DOMAIN R2.ss),
                 !.stable = IF @ = {} \/ s \notin DOMAIN R2.ss THEN {}
                            ELSE @ \cap R2.ss[s]]]

\* ---------------------------------------------------------------- Init
NewHandler == [pc |-> "new", cid |-> None, sym |-> None, msg |-> NoMsg,
               tgt |-> None]
\* A broadcast_orderbook task.  cursor, used, detached, tgt: the iterator of
\* the fan-out and the socket of the pending send; failed: the set
\* disconnected_clients.  Kept for the record: sent (the clients whose send
\* returned), stable (the clients subscribed since the loop began), missed
\* (at the end: the clients of stable with an open socket that got no send),
\* dbfail, cachefail (a backend raised), cached (the cache write returned True).
IdleTask == [pc |-> "idle", symbol |-> None, data |-> NoData, cursor |-> None,
             failed |-> {}, sent |-> {}, used |-> 0, stable |-> {},
             detached |-> FALSE, tgt |-> None, missed |-> {},
             dbfail |-> FALSE, cachefail |-> FALSE, cached |-> FALSE]

\* No get_cached_order_book_history call was made yet.
NoRead == [symbol |-> None, limit |-> None, result |-> << >>]

\* ConnectionManager.__init__, empty backends, nothing sent yet.
InitRegistry ==
  /\ active_connections = EmptyDict
  /\ symbol_subscriptions = EmptyDict
  /\ client_subscriptions = EmptyDict
  /\ wsOpen = [w \in Sockets |-> TRUE]
  /\ htask = [w \in Sockets |-> NewHandler]
  /\ btask = [b \in Tasks |-> IdleTask]
  /\ latest = [s \in Symbols |-> Absent]
  /\ history = [s \in Symbols |-> << >>]
  /\ db_records = {}
  /\ delivered = [w \in Sockets |-> << >>]
  /\ ingested = 0
  /\ books = {NormalBook}
  /\ latest_ttl = [s \in Symbols |-> None]
  /\ history_ttl = [s \in Symbols |-> None]
  /\ cached_ago = [s \in Symbols |-> Never]
  /\ cache_read = NoRead
  /\ torn = {}

\* startup_event has run: both managers are set.
Init ==
  /\ InitRegistry
  /\ db_manager = TRUE
  /\ cache_manager = TRUE
  /\ connsLeft = MaxConns
  /\ opsLeft = MaxReqs

\* startup_event never ran (the application object is driven directly):
\* neither manager is set.
InitFanout ==
  /\ InitRegistry
  /\ db_manager = FALSE
  /\ cache_manager = FALSE
  /\ connsLeft = NumSockets
  /\ opsLeft = MaxOps

\* The globals a run never reassigns once startup is over.
globals == << db_manager, cache_manager, books >>
backends == << latest, history, db_records >>
budget == << opsLeft, connsLeft >>
expiry == << latest_ttl, history_ttl, cached_ago >>

\* The sockets whose entry of active_connections is deleted when the registry
\* goes from R to R2: only disconnect deletes an entry.
TornBy(R, R2) == {R.ac[c] : c \in (DOMAIN R.ac) \ (DOMAIN R2.ac)}

\* The registry becomes R2 by a step of an endpoint coroutine.
SetReg(R2) ==
  /\ active_connections' = R2.ac
  /\ symbol_subscriptions' = R2.ss
  /\ client_subscriptions' = R2.cs
  /\ btask' = Observe(btask, Reg, R2)
  /\ torn' = torn \cup TornBy(Reg, R2)

\* websocket.send_text hands the message to the transport when it is called:
\* messages to one socket arrive in the order of the calls.  On a closed
\* transport nothing goes out.
Deliver(dl, w, m) ==
  IF wsOpen[w] THEN [dl EXCEPT ![w] = Append(@, m)] ELSE dl

\* ------------------------------------------------- endpoint coroutines
\* Where the endpoint goes on once send_personal_message(type) has returned:
\* subscribe_to_symbol enters send_cached_data, whose first await is the
\* cache read (skipped when cache_manager is not set).
AfterSend(type) ==
  CASE type = "subscription_confirmed" ->
         IF cache_manager THEN "today" ELSE "recv"
    [] type = "historical_data" -> "latest"
    [] OTHER -> "recv"

\* send_personal_message up to its await: the websocket is looked up under
\* client_id when the call is made; without an entry nothing is sent.
send_personal_message(h, R, m) ==
  IF h.cid \in DOMAIN R.ac
  THEN [h EXCEPT !.pc = "send", !.msg = m, !.tgt = R.ac[h.cid]]
  ELSE [h EXCEPT !.pc = AfterSend(m.type), !.msg = NoMsg, !.tgt = None]

\* What the clients have received once send_personal_message is suspended.
personal_delivery(h, R, m) ==
  IF h.cid \in DOMAIN R.ac THEN Deliver(delivered, R.ac[h.cid], m)
  ELSE delivered

\* Socket w may connect now: sockets are opened in the order of their numbers.
CanConnect(w) ==
  /\ htask[w].pc = "new"
  /\ connsLeft > 0
  /\ \A w0 \in Sockets : w0 < w => htask[w0].pc # "new"

\* websocket_endpoint (/ws/{client_id}): the client names its own id.
ConnectPath(w) ==
  /\ CanConnect(w)
  /\ \E c \in PathIds :
       /\ SetReg(connect(Reg, w, c))
       /\ htask' = [htask EXCEPT ![w] = [@ EXCEPT !.pc = "recv", !.cid = c]]
  /\ connsLeft' = connsLeft - 1
  /\ UNCHANGED << globals, expiry, cache_read,
                  backends, wsOpen, delivered, ingested, opsLeft >>

\* websocket_endpoint_simple (/ws): a generated id, then the "connected"
\* message.
ConnectSimple(w) ==
  /\ CanConnect(w)
  /\ LET c == UuidOf(w)
         R2 == connect(Reg, w, c)
         h == [htask[w] EXCEPT !.cid = c]
         m == Msg("connected", None, None, "none")
     IN  /\ SetReg(R2)
         /\ htask' = [htask EXCEPT ![w] = send_personal_message(h, R2, m)]
         /\ delivered' = personal_delivery(h, R2, m)
  /\ connsLeft' = connsLeft - 1
  /\ UNCHANGED << globals, expiry, cache_read,
                  backends, wsOpen, ingested, opsLeft >>

\* The client goes away: from now on receive and send on the socket raise.
SocketBreak(w) ==
  /\ htask[w].pc \notin {"new", "closed"}
  /\ wsOpen[w]
  /\ wsOpen' = [wsOpen EXCEPT ![w] = FALSE]
  /\ UNCHANGED << active_connections, symbol_subscriptions,
                  client_subscriptions, torn, globals, expiry, cache_read,
                  backends, htask, btask,
                  delivered, ingested, budget >>

Requests ==
  [action : {"subscribe", "unsubscribe"}, symbol : Symbols]
    \cup [action : {"ping"}, symbol : {None}]

\* The receive loop of both endpoints finds the transport closed:
\* receive_text raises WebSocketDisconnect and the endpoint ends through
\* manager.disconnect(client_id).
HandlerDisconnect(w) ==
  /\ htask[w].pc = "recv"
  /\ ~wsOpen[w]
  /\ SetReg(disconnect(Reg, htask[w].cid))
  /\ htask' = [htask EXCEPT ![w] = [@ EXCEPT !.pc = "closed"]]
  /\ UNCHANGED << globals, expiry, cache_read,
                  backends, wsOpen, delivered, ingested, budget >>

\* The receive loop of both endpoints receives a request and handles it up to
\* the first await of the handler.  An exception of a handler ends the
\* endpoint through manager.disconnect(client_id).
HandlerRecv(w) ==
  /\ htask[w].pc = "recv"
  /\ wsOpen[w]
  /\ opsLeft > 0
  /\ opsLeft' = opsLeft - 1
  /\ \E q \in Requests :
       LET c == htask[w].cid
           h == [htask[w] EXCEPT !.sym = q.symbol]
       IN  CASE q.action = "subscribe" ->
                  IF c \notin DOMAIN active_connections
                  THEN \* HTTPException(400), caught at line 354
                       /\ SetReg(disconnect(Reg, c))
                       /\ htask' = [htask EXCEPT ![w] =
                                      [h EXCEPT !.pc = "closed"]]
                       /\ delivered' = delivered
                  ELSE LET R2 == register(Reg, c, q.symbol)
                           m == Msg("subscription_confirmed", q.symbol,
                                    None, "none")
                       IN /\ SetReg(R2)
                          /\ htask' = [htask EXCEPT ![w] =
                                         send_personal_message(h, R2, m)]
                          /\ delivered' = personal_delivery(h, R2, m)
             [] q.action = "unsubscribe" ->
                  LET R2 == unregister(Reg, c, q.symbol)
                      m == Msg("unsubscription_confirmed", q.symbol,
                               None, "none")
                  IN /\ SetReg(R2)
                     /\ htask' = [htask EXCEPT ![w] =
                                    send_personal_message(h, R2, m)]
                     /\ delivered' = personal_delivery(h, R2, m)
             [] OTHER ->
                  LET m == Msg("pong", None, None, "none")
                  IN /\ SetReg(Reg)
                     /\ htask' = [htask EXCEPT ![w] =
                                    send_personal_message(h, Reg, m)]
                     /\ delivered' = personal_delivery(h, Reg, m)
  /\ UNCHANGED << globals, expiry, cache_read,
                  backends, wsOpen, ingested, connsLeft >>

\* The send_text of send_personal_message returns, or it raises and the
\* client is disconnected (line 196).
HandlerSendDone(w) ==
  /\ htask[w].pc = "send"
  /\ LET h == htask[w]
     IN  /\ htask' = [htask EXCEPT ![w] =
               [h EXCEPT !.pc = AfterSend(h.msg.type), !.msg = NoMsg,
                         !.tgt = None]]
         /\ IF wsOpen[h.tgt] THEN SetReg(Reg)
            ELSE SetReg(disconnect(Reg, h.cid))
  /\ UNCHANGED << globals, expiry, cache_read,
                  backends, wsOpen, delivered, ingested, budget >>

\* send_cached_data, first await: today's cached entries; a non-empty result
\* goes out as historical_data.
HandlerToday(w) ==
  /\ htask[w].pc = "today"
  /\ \E ok \in BOOLEAN :
       LET h == htask[w]
           cached_data == get_cached_order_book_data_today(h.sym, ok)
           m == Msg("historical_data", h.sym, Len(cached_data), "backfill")
       IN  IF cached_data # << >>
           THEN /\ htask' = [htask EXCEPT ![w] =
                               send_personal_message(h, Reg, m)]
                /\ delivered' = personal_delivery(h, Reg, m)
           ELSE /\ htask' = [htask EXCEPT ![w] = [h EXCEPT !.pc = "latest"]]
                /\ delivered' = delivered
  /\ UNCHANGED << active_connections, symbol_subscriptions,
                  client_subscriptions, torn, globals, expiry, cache_read,
                  backends, wsOpen, btask,
                  ingested, budget >>

\* send_cached_data, second await: the latest slot; when present it goes out
\* as an orderbook_update.
HandlerLatest(w) ==
  /\ htask[w].pc = "latest"
  /\ \E ok \in BOOLEAN :
       LET h == htask[w]
           latest_data == get_cached_order_book_data(h.sym, ok)
       IN  IF latest_data # Absent
           THEN LET m == Msg("orderbook_update", h.sym,
                             latest_data.data.seq, "backfill")
                IN /\ htask' = [htask EXCEPT ![w] =
                                  send_personal_message(h, Reg, m)]
                   /\ delivered' = personal_delivery(h, Reg, m)
           ELSE /\ htask' = [htask EXCEPT ![w] = [h EXCEPT !.pc = "recv"]]
                /\ delivered' = delivered
  /\ UNCHANGED << active_connections, symbol_subscriptions,
                  client_subscriptions, torn, globals, expiry, cache_read,
                  backends, wsOpen, btask,
                  ingested, budget >>

\* ------------------------------------------------------- ingestion path
HistoryCap == 100

Min(a, b) == IF a < b THEN a ELSE b

\* valid_bids / valid_asks: the levels that are lists of at least two items.
ValidLevels(levels) == SelectSeq(levels, LAMBDA l : Len(l) >= 2)

RECURSIVE SumQty(_)
SumQty(levels) ==
  IF levels = << >> THEN 0 ELSE Head(levels)[2] + SumQty(Tail(levels))

\* A best bid taken from the first level of the side.
MaxPrice_of_first_level(levels) == levels[1][1]

MaxPrice(levels) ==
  CHOOSE p \in {levels[i][1] : i \in DOMAIN levels} :
    \A i \in DOMAIN levels : levels[i][1] <= p
MinPrice(levels) ==
  CHOOSE p \in {levels[i][1] : i \in DOMAIN levels} :
    \A i \in DOMAIN levels : levels[i][1] >= p

\* orderbook_data.get(side, []): the levels of a side, none when the key is
\* missing.
Side(d, side) == IF side \in DOMAIN d THEN d[side] ELSE << >>

\* store_orderbook_data reaches its database write.
NeedsSave(d) ==
  /\ db_manager
  /\ Side(d, "Bid") # << >> /\ Side(d, "Ask") # << >>
  /\ ValidLevels(Side(d, "Bid")) # << >>
  /\ ValidLevels(Side(d, "Ask")) # << >>

\* The quotient num / den of a true division, kept as a fraction.
Ratio(num, den) == [num |-> num, den |-> den]
Positive(q) == (q.num > 0 /\ q.den > 0) \/ (q.num < 0 /\ q.den < 0)

\* The record store_orderbook_data hands to save_order_book_data.
DbRecord(s, d) ==
  LET vb == ValidLevels(Side(d, "Bid"))
      va == ValidLevels(Side(d, "Ask"))
      best_bid == MaxPrice(vb)
      best_ask == MinPrice(va)
      mid_price == Ratio(best_bid + best_ask, 2)
      spread == best_ask - best_bid
  IN  [symbol |-> s, time |-> d.seq,
       best_bid |-> best_bid, best_ask |-> best_ask,
       mid_price |-> mid_price,
       spread |-> spread,
       spread_percentage |->
         IF Positive(mid_price)
         THEN Ratio(spread * 100 * mid_price.den, mid_price.num)
         ELSE Ratio(0, 1),
       bid_volume |-> SumQty(vb), ask_volume |-> SumQty(va),
       total_volume |-> SumQty(vb) + SumQty(va),
       bid_levels |-> Side(d, "Bid"), ask_levels |-> Side(d, "Ask")]

\* DatabaseManager.save_order_book_data: one record appended, or an error
\* raised into store_orderbook_data's except clause.
save_order_book_data(records, rec, ok) ==
  IF ok THEN records \cup {rec} ELSE records

\* The stage broadcast_orderbook enters after store_orderbook_data.
AfterStore == IF cache_manager THEN "setex" ELSE "fanout"

\* The clients of the set that the iterator has still to yield.  A set is
\* walked in the order of its hash table, the same for every walk of the
\* process; the model takes the order of the ids.  A client added behind the
\* cursor is missed.
Rest(t, R) == {c \in R.ss[t.symbol] : c > t.cursor}

\* The for loop of broadcast_to_symbol from a next() of its iterator up to the
\* next send_text it awaits, or through the cleanup loop to its end.  A
\* client without an entry in active_connections raises KeyError at the
\* lookup, which the except clause turns into a failed client, without
\* suspending.
\* The task ends: what is kept of it is its record.
Finish(t, pc, R) ==
  [IdleTask EXCEPT !.pc = pc, !.symbol = t.symbol, !.data = t.data,
                   !.failed = t.failed, !.dbfail = t.dbfail,
                   !.cachefail = t.cachefail, !.cached = t.cached,
                   !.missed = {c \in t.stable \ (t.sent \cup t.failed) :
                                 c \in DOMAIN R.ac /\ wsOpen[R.ac[c]]}]

RECURSIVE Walk(_, _)
Walk(t, R) ==
  IF Rest(t, R) = {}
  THEN [t |-> Finish(t, "returned", R),
        R |-> disconnect_all(R, t.failed), dl |-> delivered]
  ELSE LET c == CHOOSE x \in Rest(t, R) : \A y \in Rest(t, R) : x <= y
       IN  IF c \notin DOMAIN R.ac
           THEN Walk([t EXCEPT !.cursor = c, !.failed = @ \cup {c}], R)
           ELSE [t |-> [t EXCEPT !.pc = "send", !.cursor = c,
                                 !.tgt = R.ac[c]],
                 R |-> R,
                 dl |-> Deliver(delivered, R.ac[c],
                                Msg("orderbook_update", t.symbol, t.data.seq,
                                    "live"))]

\* next() raises RuntimeError when the set object changed size since the loop
\* began; the exception leaves broadcast_to_symbol and broadcast_orderbook.
Advance(t, R) ==
  IF t.detached \/ Cardinality(R.ss[t.symbol]) # t.used
  THEN [t |-> Finish(t, "raised", R), R |-> R, dl |-> delivered]
  ELSE Walk(t, R)

\* broadcast_to_symbol from its first line.
BeginFanout(t, R) ==
  IF t.symbol \notin DOMAIN R.ss
  THEN [t |-> Finish(t, "returned", R), R |-> R, dl |-> delivered]
  ELSE Advance([t EXCEPT !.used = Cardinality(R.ss[t.symbol]),
                         !.stable = R.ss[t.symbol]], R)

\* The task goes on to `stage`: a stage that awaits, or the fan-out.
Continue(t, R, stage) ==
  IF stage = "fanout" THEN BeginFanout(t, R)
  ELSE [t |-> [t EXCEPT !.pc = stage], R |-> R, dl |-> delivered]

\* Task b ends its step as o says.
Take(b, o) ==
  /\ btask' = [Observe(btask, Reg, o.R) EXCEPT ![b] = o.t]
  /\ active_connections' = o.R.ac
  /\ symbol_subscriptions' = o.R.ss
  /\ client_subscriptions' = o.R.cs
  /\ torn' = torn \cup TornBy(Reg, o.R)
  /\ delivered' = o.dl

\* POST /broadcast/orderbook is received: broadcast_orderbook runs up to its
\* first await.  Requests are numbered in the order received.
Start(b) ==
  /\ btask[b].pc = "idle"
  /\ \A b0 \in Tasks : b0 < b => btask[b0].pc # "idle"
  /\ \E s \in Symbols, book \in books :
       LET d == [seq |-> ingested + 1] @@ book
           t == [btask[b] EXCEPT !.symbol = s, !.data = d]
       IN  Take(b, Continue(t, Reg,
                            IF NeedsSave(d) THEN "store" ELSE AfterStore))
  /\ ingested' = ingested + 1
  /\ UNCHANGED << globals, expiry, cache_read,
                  backends, wsOpen, htask, budget >>

\* The database write of store_orderbook_data completes or raises.
StoreDone(b) ==
  /\ btask[b].pc = "store"
  /\ \E ok \in BOOLEAN :
       LET t == btask[b] IN
       /\ db_records' =
            save_order_book_data(db_records, DbRecord(t.symbol, t.data), ok)
       /\ Take(b, Continue([t EXCEPT !.dbfail = ~ok], Reg, AfterStore))
  /\ UNCHANGED << globals, expiry, cache_read,
                  latest, history, wsOpen, htask, ingested,
                  budget >>

\* A latest slot written by SET: the value without an expiry.
CacheSetex_without_ttl(b) ==
  /\ btask[b].pc = "setex"
  /\ \E ok \in BOOLEAN :
       LET t == btask[b] IN
       /\ latest' = IF ok
                    THEN [latest EXCEPT ![t.symbol] = CacheData(t.symbol, t.data)]
                    ELSE latest
       /\ latest_ttl' = IF ok THEN [latest_ttl EXCEPT ![t.symbol] = None]
                        ELSE latest_ttl
       /\ cached_ago' = IF ok THEN [cached_ago EXCEPT ![t.symbol] = 0]
                        ELSE cached_ago
       /\ Take(b, Continue([t EXCEPT !.cachefail = ~ok], Reg,
                           IF ok THEN "lpush" ELSE "fanout"))
  /\ UNCHANGED << globals, history_ttl, cache_read,
                  history, db_records, wsOpen, htask, ingested,
                  budget >>

\* cache_order_book_data, one Redis command per step; a command that raises
\* ends the call with False.  SETEX writes the value and starts its expiry.
CacheSetex(b) ==
  /\ btask[b].pc = "setex"
  /\ \E ok \in BOOLEAN :
       LET t == btask[b] IN
       /\ latest' = IF ok
                    THEN [latest EXCEPT ![t.symbol] = CacheData(t.symbol, t.data)]
                    ELSE latest
       /\ latest_ttl' = IF ok THEN [latest_ttl EXCEPT ![t.symbol] = TtlTicks]
                        ELSE latest_ttl
       /\ cached_ago' = IF ok THEN [cached_ago EXCEPT ![t.symbol] = 0]
                        ELSE cached_ago
       /\ Take(b, Continue([t EXCEPT !.cachefail = ~ok], Reg,
                           IF ok THEN "lpush" ELSE "fanout"))
  /\ UNCHANGED << globals, history_ttl, cache_read,
                  history, db_records, wsOpen, htask, ingested,
                  budget >>

\* LPUSH creates the list when the key is not there, without an expiry.
CacheLpush(b) ==
  /\ btask[b].pc = "lpush"
  /\ \E ok \in BOOLEAN :
       LET t == btask[b] IN
       /\ history' = IF ok
                     THEN [history EXCEPT ![t.symbol] =
                             << CacheData(t.symbol, t.data) >> \o @]
                     ELSE history
       /\ Take(b, Continue([t EXCEPT !.cachefail = ~ok], Reg,
                           IF ok THEN "ltrim" ELSE "fanout"))
  /\ UNCHANGED << globals, expiry, cache_read,
                  latest, db_records, wsOpen, htask, ingested,
                  budget >>

\* An ltrim that keeps the other end of the list: the oldest HistoryCap
\* entries.
CacheLtrim_keeping_oldest(b) ==
  /\ btask[b].pc = "ltrim"
  /\ \E ok \in BOOLEAN :
       LET t == btask[b] IN
       /\ history' = IF ok
                     THEN [history EXCEPT ![t.symbol] =
                             SubSeq(@, Len(@) - Min(Len(@), HistoryCap) + 1,
                                    Len(@))]
                     ELSE history
       /\ Take(b, Continue([t EXCEPT !.cachefail = ~ok], Reg,
                           IF ok THEN "expire" ELSE "fanout"))
  /\ UNCHANGED << globals, expiry, cache_read,
                  latest, db_records, wsOpen, htask, ingested,
                  budget >>

CacheLtrim(b) ==
  /\ btask[b].pc = "ltrim"
  /\ \E ok \in BOOLEAN :
       LET t == btask[b] IN
       /\ history' = IF ok
                     THEN [history EXCEPT ![t.symbol] =
                             SubSeq(@, 1, Min(Len(@), HistoryCap))]
                     ELSE history
       /\ Take(b, Continue([t EXCEPT !.cachefail = ~ok], Reg,
                           IF ok THEN "expire" ELSE "fanout"))
  /\ UNCHANGED << globals, expiry, cache_read,
                  latest, db_records, wsOpen, htask, ingested,
                  budget >>

\* EXPIRE starts the expiry of the list, when the key is there.
CacheExpire(b) ==
  /\ btask[b].pc = "expire"
  /\ \E ok \in BOOLEAN :
       LET t == btask[b] IN
       /\ history_ttl' = IF ok /\ history[t.symbol] # << >>
                         THEN [history_ttl EXCEPT ![t.symbol] = TtlTicks]
                         ELSE history_ttl
       /\ Take(b, Continue([t EXCEPT !.cachefail = ~ok, !.cached = ok], Reg,
                           "fanout"))
  /\ UNCHANGED << globals, latest_ttl, cached_ago, cache_read,
                  backends, wsOpen, htask, ingested, budget >>

\* A send_text of the fan-out returns, or it raises and the client joins
\* disconnected_clients; the loop goes on.
SendDone(b) ==
  /\ btask[b].pc = "send"
  /\ LET t == btask[b]
     IN  IF wsOpen[t.tgt]
         THEN Take(b, Advance([t EXCEPT !.sent = @ \cup {t.cursor}], Reg))
         ELSE Take(b, Advance([t EXCEPT !.failed = @ \cup {t.cursor}], Reg))
  /\ UNCHANGED << globals, expiry, cache_read,
                  backends, wsOpen, htask, ingested, budget >>

Next ==
  \/ \E w \in Sockets : ConnectPath(w)
  \/ \E w \in Sockets : ConnectSimple(w)
  \/ \E w \in Sockets : SocketBreak(w)
  \/ \E w \in Sockets : HandlerDisconnect(w)
  \/ \E w \in Sockets : HandlerRecv(w)
  \/ \E w \in Sockets : HandlerSendDone(w)
  \/ \E w \in Sockets : HandlerToday(w)
  \/ \E w \in Sockets : HandlerLatest(w)
  \/ \E b \in Tasks : Start(b)
  \/ \E b \in Tasks : StoreDone(b)
  \/ \E b \in Tasks : CacheSetex(b)
  \/ \E b \in Tasks : CacheLpush(b)
  \/ \E b \in Tasks : CacheLtrim(b)
  \/ \E b \in Tasks : CacheExpire(b)
  \/ \E b \in Tasks : SendDone(b)

Spec == Init /\ [][Next]_vars

\* The steps open to a process whose managers are not set.
NextFanout ==
  \/ \E w \in Sockets : ConnectPath(w)
  \/ \E w \in Sockets : ConnectSimple(w)
  \/ \E w \in Sockets : SocketBreak(w)
  \/ \E w \in Sockets : HandlerDisconnect(w)
  \/ \E w \in Sockets : HandlerRecv(w)
  \/ \E w \in Sockets : HandlerSendDone(w)
  \/ \E b \in Tasks : Start(b)
  \/ \E b \in Tasks : SendDone(b)

SpecFanout == InitFanout /\ [][NextFanout]_vars

\* The steps of the endpoint coroutines alone: no snapshot is posted.
NextCalls ==
  \/ \E w \in Sockets : ConnectPath(w)
  \/ \E w \in Sockets : ConnectSimple(w)
  \/ \E w \in Sockets : SocketBreak(w)
  \/ \E w \in Sockets : HandlerDisconnect(w)
  \/ \E w \in Sockets : HandlerRecv(w)
  \/ \E w \in Sockets : HandlerSendDone(w)

SpecCalls == InitFanout /\ [][NextCalls]_vars

\* -------------------------------------- runs from a later starting point
FirstOf(S) == CHOOSE x \in S : \A y \in S : x <= y

\* The registry once the first socket is connected on /ws/{client_id}, the
\* second on /ws, and both have subscribed to the first symbol.
SubscribedRegistry ==
  LET R0 == [ac |-> EmptyDict, ss |-> EmptyDict, cs |-> EmptyDict]
      w1 == FirstOf(Sockets)
      w2 == FirstOf(Sockets \ {w1})
      c1 == FirstOf(PathIds)
      s == FirstOf(Symbols)
  IN  register(register(connect(connect(R0, w1, c1), w2, UuidOf(w2)),
                        c1, s), UuidOf(w2), s)

\* The process after those two subscriptions, made while the cache was empty:
\* both endpoints are back in their receive loop and no client sends a
\* further request.
InitIngest ==
  LET w1 == FirstOf(Sockets)
      w2 == FirstOf(Sockets \ {w1})
      s == FirstOf(Symbols)
      confirmed == Msg("subscription_confirmed", s, None, "none")
  IN  /\ active_connections = SubscribedRegistry.ac
      /\ symbol_subscriptions = SubscribedRegistry.ss
      /\ client_subscriptions = SubscribedRegistry.cs
      /\ wsOpen = [w \in Sockets |-> TRUE]
      /\ htask = [w \in Sockets |->
                    IF w = w1
                    THEN [NewHandler EXCEPT !.pc = "recv", !.sym = s,
                                            !.cid = FirstOf(PathIds)]
                    ELSE IF w = w2
                    THEN [NewHandler EXCEPT !.pc = "recv", !.sym = s,
                                            !.cid = UuidOf(w2)]
                    ELSE NewHandler]
      /\ delivered = [w \in Sockets |->
                        IF w = w1 THEN << confirmed >>
                        ELSE IF w = w2
                        THEN << Msg("connected", None, None, "none"),
                                confirmed >>
                        ELSE << >>]
      /\ btask = [b \in Tasks |-> IdleTask]
      /\ latest = [x \in Symbols |-> Absent]
      /\ history = [x \in Symbols |-> << >>]
      /\ db_records = {}
      /\ ingested = 0
      /\ latest_ttl = [x \in Symbols |-> None]
      /\ history_ttl = [x \in Symbols |-> None]
      /\ cached_ago = [x \in Symbols |-> Never]
      /\ cache_read = NoRead
      /\ torn = {}
      /\ db_manager = TRUE
      /\ cache_manager = TRUE
      /\ connsLeft = 0
      /\ opsLeft = 0

\* The steps of the ingestion path.
NextIngest ==
  \/ \E b \in Tasks : Start(b)
  \/ \E b \in Tasks : StoreDone(b)
  \/ \E b \in Tasks : CacheSetex(b)
  \/ \E b \in Tasks : CacheLpush(b)
  \/ \E b \in Tasks : CacheLtrim(b)
  \/ \E b \in Tasks : CacheExpire(b)
  \/ \E b \in Tasks : SendDone(b)

InitStall == InitIngest /\ books = {NormalBook}

\* The event loop resumes every coroutine whose awaited I/O has completed;
\* here the database never answers: no step of the database write is
\* promised, every other await completes.
SpecStall ==
  /\ InitStall
  /\ [][NextIngest]_vars
  /\ \A b \in Tasks :
       /\ WF_vars(CacheSetex(b)) /\ WF_vars(CacheLpush(b))
       /\ WF_vars(CacheLtrim(b)) /\ WF_vars(CacheExpire(b))
       /\ WF_vars(SendDone(b))

\* The socket whose client reads nothing: a send_text to it never completes.
SlowSocket == FirstOf(Sockets)

\* Every await completes except a send_text to the slow socket.
SpecSlow ==
  /\ InitStall
  /\ [][NextIngest]_vars
  /\ \A b \in Tasks :
       /\ WF_vars(StoreDone(b))
       /\ WF_vars(CacheSetex(b)) /\ WF_vars(CacheLpush(b))
       /\ WF_vars(CacheLtrim(b)) /\ WF_vars(CacheExpire(b))
       /\ WF_vars(SendDone(b) /\ btask[b].tgt # SlowSocket)

\* The producers post well-formed and malformed books; a client may go away,
\* which its endpoint, blocked in receive_text, has not yet been told.
InitBooks ==
  InitIngest
    /\ books = {NormalBook, EmptyBidBook, MissingAskBook, NegativeBook}

NextBooks ==
  \/ NextIngest
  \/ \E w \in Sockets : SocketBreak(w)

SpecBooks == InitBooks /\ [][NextBooks]_vars

\* The producers post books whose best ask is below the best bid.
InitCrossed == InitIngest /\ books = {NormalBook, CrossedBook}

SpecCrossed == InitCrossed /\ [][NextBooks]_vars

\* The producers post books of every shape that reaches the database write.
InitMetrics ==
  InitIngest
    /\ books = {NormalBook, CrossedBook, ZeroMidBook, ShortLevelBook,
                NegativeBook}

SpecMetrics == InitMetrics /\ [][NextIngest]_vars

\* Redis LRANGE key start stop: indexes count from 0, a negative index
\* counts from the end of the list (-1 is the last element), stop is
\* inclusive and clamped to the end.
lrange(l, start, stop) ==
  LET n == Len(l)
      a0 == IF start < 0 THEN n + start ELSE start
      a == IF a0 < 0 THEN 0 ELSE a0
      b0 == IF stop < 0 THEN n + stop ELSE stop
      b == Min(b0, n - 1)
  IN  IF a > b \/ a >= n THEN << >> ELSE SubSeq(l, a + 1, b + 1)

\* get_cached_order_book_history: lrange(0, limit - 1) of the history list,
\* nothing when Redis raised.
get_cached_order_book_history(s, limit, ok) ==
  IF ok THEN lrange(history[s], 0, limit - 1) ELSE << >>

\* The history list of symbol s after n snapshots were cached for it one
\* after the other, numbered 1..n: the newest HistoryCap of them, newest
\* first.
CachedSoFar(s, n) ==
  [i \in 1..Min(n, HistoryCap) |->
     CacheData(s, [seq |-> n + 1 - i] @@ NormalBook)]

\* The numbers of snapshots already cached when a run begins.
Prefills == {0, HistoryCap - 1, HistoryCap}

\* A process without clients whose cache holds the last snapshots of the
\* first symbol (every database write of theirs having raised).
InitCache ==
  /\ active_connections = EmptyDict
  /\ symbol_subscriptions = EmptyDict
  /\ client_subscriptions = EmptyDict
  /\ wsOpen = [w \in Sockets |-> TRUE]
  /\ htask = [w \in Sockets |-> NewHandler]
  /\ btask = [b \in Tasks |-> IdleTask]
  /\ \E n \in Prefills :
       /\ history = [s \in Symbols |->
                       IF s = FirstOf(Symbols) THEN CachedSoFar(s, n)
                       ELSE << >>]
       /\ latest = [s \in Symbols |->
                      IF s = FirstOf(Symbols) /\ n > 0
                      THEN CacheData(s, [seq |-> n] @@ NormalBook)
                      ELSE Absent]
       /\ ingested = n
       /\ latest_ttl = [s \in Symbols |->
                          IF s = FirstOf(Symbols) /\ n > 0 THEN TtlTicks
                          ELSE None]
       /\ history_ttl = [s \in Symbols |->
                           IF s = FirstOf(Symbols) /\ n > 0 THEN TtlTicks
                           ELSE None]
       /\ cached_ago = [s \in Symbols |->
                          IF s = FirstOf(Symbols) /\ n > 0 THEN 0 ELSE Never]
  /\ cache_read = NoRead
  /\ torn = {}
  /\ db_records = {}
  /\ delivered = [w \in Sockets |-> << >>]
  /\ books = {NormalBook}
  /\ db_manager = TRUE
  /\ cache_manager = TRUE
  /\ connsLeft = 0
  /\ opsLeft = 0

\* The steps of broadcast_orderbook when no client is connected.
NextCache ==
  \/ \E b \in Tasks : Start(b)
  \/ \E b \in Tasks : StoreDone(b)
  \/ \E b \in Tasks : CacheSetex(b)
  \/ \E b \in Tasks : CacheLpush(b)
  \/ \E b \in Tasks : CacheLtrim(b)
  \/ \E b \in Tasks : CacheExpire(b)

SpecCache == InitCache /\ [][NextCache]_vars

\* A producer that posts its next snapshot once the previous request has been
\* answered.
StartAfter(b) ==
  /\ \A b0 \in Tasks : btask[b0].pc \in {"idle", "returned", "raised"}
  /\ Start(b)

NextCacheSeq ==
  \/ \E b \in Tasks : StartAfter(b)
  \/ \E b \in Tasks : StoreDone(b)
  \/ \E b \in Tasks : CacheSetex(b)
  \/ \E b \in Tasks : CacheLpush(b)
  \/ \E b \in Tasks : CacheLtrim(b)
  \/ \E b \in Tasks : CacheExpire(b)

SpecCacheSeq == InitCache /\ [][NextCacheSeq]_vars

\* The limits a caller of get_cached_order_book_history passes.
Limits == {0, 1, HistoryCap}

\* A caller reads the history of a symbol.
HistoryRead ==
  /\ \E s \in Symbols, limit \in Limits, ok \in BOOLEAN :
       cache_read' = [symbol |-> s, limit |-> limit,
                      result |-> get_cached_order_book_history(s, limit, ok)]
  /\ UNCHANGED << active_connections, symbol_subscriptions,
                  client_subscriptions, torn, globals, expiry, backends, wsOpen,
                  htask, btask, delivered, ingested, budget >>

SpecRead == InitCache /\ [][NextCache \/ HistoryRead]_vars

\* Time passes by one tick: Redis deletes the keys whose expiry has run out.
Tick ==
  /\ \E s \in Symbols :
       \/ latest_ttl[s] > 0
       \/ history_ttl[s] > 0
       \/ cached_ago[s] \in 0..(TtlTicks - 1)
  /\ latest_ttl' = [s \in Symbols |->
                      IF latest_ttl[s] > 0 THEN latest_ttl[s] - 1 ELSE None]
  /\ latest' = [s \in Symbols |->
                  IF latest_ttl[s] = 1 THEN Absent ELSE latest[s]]
  /\ history_ttl' = [s \in Symbols |->
                       IF history_ttl[s] > 0 THEN history_ttl[s] - 1 ELSE None]
  /\ history' = [s \in Symbols |->
                   IF history_ttl[s] = 1 THEN << >> ELSE history[s]]
  /\ cached_ago' = [s \in Symbols |->
                      IF cached_ago[s] = Never THEN Never
                      ELSE Min(cached_ago[s] + 1, TtlTicks)]
  /\ UNCHANGED << active_connections, symbol_subscriptions,
                  client_subscriptions, torn, globals, cache_read, db_records,
                  wsOpen, htask, btask, delivered, ingested, budget >>

\* invalidate_order_book_cache: one DEL of both keys, or Redis raises and
\* nothing is deleted.
invalidate_order_book_cache(s) ==
  /\ \E ok \in BOOLEAN :
       IF ok
       THEN /\ latest' = [latest EXCEPT ![s] = Absent]
            /\ history' = [history EXCEPT ![s] = << >>]
            /\ latest_ttl' = [latest_ttl EXCEPT ![s] = None]
            /\ history_ttl' = [history_ttl EXCEPT ![s] = None]
            /\ cached_ago' = [cached_ago EXCEPT ![s] = Never]
       ELSE UNCHANGED << latest, history, expiry >>
  /\ UNCHANGED << active_connections, symbol_subscriptions,
                  client_subscriptions, torn, globals, cache_read, db_records,
                  wsOpen, htask, btask, delivered, ingested, budget >>

\* The cache with time passing and keys invalidated.
NextTtl ==
  \/ NextCache
  \/ Tick
  \/ \E s \in Symbols : invalidate_order_book_cache(s)

SpecTtl == InitCache /\ [][NextTtl]_vars

\* The process after one snapshot of the first symbol has gone through
\* broadcast_orderbook, stored and cached, before any client connected.
InitCached ==
  LET s == FirstOf(Symbols)
      d == [seq |-> 1] @@ NormalBook
  IN  /\ active_connections = EmptyDict
      /\ symbol_subscriptions = EmptyDict
      /\ client_subscriptions = EmptyDict
      /\ wsOpen = [w \in Sockets |-> TRUE]
      /\ htask = [w \in Sockets |-> NewHandler]
      /\ btask = [b \in Tasks |->
                    IF b = FirstOf(Tasks)
                    THEN [IdleTask EXCEPT !.pc = "returned", !.symbol = s,
                                          !.data = d, !.cached = TRUE]
                    ELSE IdleTask]
      /\ latest = [x \in Symbols |->
                     IF x = s THEN CacheData(s, d) ELSE Absent]
      /\ history = [x \in Symbols |->
                      IF x = s THEN CachedSoFar(s, 1) ELSE << >>]
      /\ latest_ttl = [x \in Symbols |-> IF x = s THEN TtlTicks ELSE None]
      /\ history_ttl = [x \in Symbols |-> IF x = s THEN TtlTicks ELSE None]
      /\ cached_ago = [x \in Symbols |-> IF x = s THEN 0 ELSE Never]
      /\ cache_read = NoRead
      /\ torn = {}
      /\ db_records = {DbRecord(s, d)}
      /\ delivered = [w \in Sockets |-> << >>]
      /\ ingested = 1
      /\ books = {NormalBook}
      /\ db_manager = TRUE
      /\ cache_manager = TRUE
      /\ connsLeft = MaxConns
      /\ opsLeft = MaxOps

SpecBackfill == InitCached /\ [][Next]_vars

\* ------------------------------------------------------------- claims
Finished(b) == btask[b].pc \in {"returned", "raised"}

\* Client c is in no part of the registry.
Gone(c) ==
  /\ c \notin DOMAIN active_connections
  /\ c \notin DOMAIN client_subscriptions
  /\ \A s \in DOMAIN symbol_subscriptions : c \notin symbol_subscriptions[s]

\* C1: on every socket, between the subscription_confirmed of a subscribe to
\* symbol s and the cached latest snapshot that subscribe's backfill sends,
\* no live orderbook_update of s is delivered.
C1_BackfillBeforeLive ==
  \A w \in Sockets : \A j \in DOMAIN delivered[w] :
    LET log == delivered[w] IN
    (log[j].type = "orderbook_update" /\ log[j].src = "backfill") =>
      \A i \in 1..(j - 1) :
        (log[i].src = "live" /\ log[i].symbol = log[j].symbol) =>
          \E k \in (i + 1)..(j - 1) :
            /\ log[k].type = "subscription_confirmed"
            /\ log[k].symbol = log[j].symbol

\* C2: a fan-out in which a send raised still reaches every other client
\* that stayed subscribed and whose socket is open.
C2_FailureIsolated ==
  \A b \in Tasks :
    (Finished(b) /\ btask[b].failed # {}) => btask[b].missed = {}

\* C3: when a fan-out returns, every client whose send raised in it is in no
\* part of the registry and no other client lost its connection; the same
\* when a send of send_personal_message raises.
C3_FailedClientTornDown ==
  [][ /\ \A b \in Tasks :
           (~Finished(b) /\ btask'[b].pc = "returned") =>
             /\ \A c \in btask'[b].failed : Gone(c)'
             /\ (DOMAIN active_connections) \ btask'[b].failed
                  \subseteq DOMAIN active_connections'
      /\ \A w \in Sockets :
           (htask[w].pc = "send" /\ htask'[w].pc # "send"
              /\ ~wsOpen[htask[w].tgt]) =>
             /\ Gone(htask[w].cid)'
             /\ (DOMAIN active_connections) \ {htask[w].cid}
                  \subseteq DOMAIN active_connections'
    ]_vars

\* C4: a fan-out never ends by raising, and it reaches every client that
\* stayed subscribed throughout and whose socket is open.
C4_FanoutTolerant ==
  \A b \in Tasks :
    Finished(b) => (btask[b].pc = "returned" /\ btask[b].missed = {})

\* C5: every client_id of a subscriber set has an active connection.
C5_NoLeak ==
  \A s \in DOMAIN symbol_subscriptions :
    symbol_subscriptions[s] \subseteq DOMAIN active_connections

\* The endpoint of socket w is between its connect and its disconnect.
Active(w) == htask[w].pc \notin {"new", "closed"}

\* C7: two connections active at the same time never share a client_id.
C7_UniqueIds ==
  \A w1, w2 \in Sockets :
    (w1 # w2 /\ Active(w1) /\ Active(w2)) => htask[w1].cid # htask[w2].cid

\* Client x is in the subscriber set of symbol s in the index ss.
Member(x, s, ss) == s \in DOMAIN ss /\ x \in ss[s]

\* The endpoint of socket w calls manager.disconnect(client_id) in this step:
\* at the end of the endpoint, or after a send of send_personal_message
\* raised.
CallsDisconnect(w) ==
  \/ htask[w].pc = "recv" /\ htask'[w].pc = "closed"
  \/ htask[w].pc = "send" /\ htask'[w].pc # "send" /\ ~wsOpen[htask[w].tgt]

\* The effect of one disconnect(c) on the two subscription indexes, K being
\* the symbols of client_subscriptions[c].
DisconnectFrame(c) ==
  LET K == IF c \in DOMAIN client_subscriptions
           THEN client_subscriptions[c] ELSE {}
  IN  /\ c \notin DOMAIN client_subscriptions'
      /\ \A s \in K : ~Member(c, s, symbol_subscriptions')
      /\ \A s \in Symbols \ K :
           Member(c, s, symbol_subscriptions')
             <=> Member(c, s, symbol_subscriptions)
      /\ \A x \in ClientIds \ {c} :
           /\ \A s \in Symbols :
                Member(x, s, symbol_subscriptions')
                  <=> Member(x, s, symbol_subscriptions)
           /\ (x \in DOMAIN client_subscriptions')
                <=> (x \in DOMAIN client_subscriptions)
           /\ x \in DOMAIN client_subscriptions =>
                client_subscriptions'[x] = client_subscriptions[x]

C8_CacheFollowsIngestion ==
  \A b1, b2 \in Tasks :
    ( /\ Finished(b1) /\ Finished(b2)
      /\ btask[b1].symbol = btask[b2].symbol
      /\ btask[b1].cached /\ btask[b2].cached
      /\ btask[b1].data.seq < btask[b2].data.seq ) =>
      LET s == btask[b2].symbol
      IN  /\ latest[s] # Absent
          /\ latest[s].data.seq = btask[b2].data.seq
          /\ history[s] # << >>
          /\ Head(history[s]).data.seq = btask[b2].data.seq

\* C9: on every socket the live orderbook_update messages of one symbol
\* arrive in the order in which their broadcast requests were received.
C9_LiveInIngestionOrder ==
  \A w \in Sockets : \A i, j \in DOMAIN delivered[w] :
    LET log == delivered[w] IN
    ( /\ i < j
      /\ log[i].src = "live" /\ log[j].src = "live"
      /\ log[i].symbol = log[j].symbol ) => log[i].seq < log[j].seq

\* C10: a broadcast_orderbook call in which the database write or a cache
\* command raised still returns without raising, reaches every client that
\* stayed subscribed and whose socket is open, and the backend that did not
\* fail has its write.
C10_BackendFailureContained ==
  \A b \in Tasks :
    (Finished(b) /\ (btask[b].dbfail \/ btask[b].cachefail)) =>
      /\ btask[b].pc = "returned"
      /\ btask[b].missed = {}
      /\ ~btask[b].cachefail => btask[b].cached
      /\ ~btask[b].dbfail =>
           DbRecord(btask[b].symbol, btask[b].data) \in db_records

\* The fan-out of task b has begun (or the call has ended).
InFanout(b) == btask[b].pc \in {"send", "returned", "raised"}

\* C11: a broadcast_orderbook call whose database write is pending still
\* goes on to its cache update and its fan-out, whether or not the write
\* ever completes.
C11_NoStallOnStore ==
  \A b \in Tasks : (btask[b].pc = "store") ~> InFanout(b)

\* Socket w has received the live message of task b.
GotLive(w, b) ==
  \E j \in DOMAIN delivered[w] :
    /\ delivered[w][j].src = "live"
    /\ delivered[w][j].symbol = btask[b].symbol
    /\ delivered[w][j].seq = btask[b].data.seq

\* C12: a fan-out suspended in a send to the slow socket still returns, and
\* every other subscriber of the symbol still receives the message.
C12_SlowSubscriberDropped ==
  \A b \in Tasks :
    /\ (btask[b].pc = "send" /\ btask[b].tgt = SlowSocket) ~> Finished(b)
    /\ \A c \in ClientIds :
         ( /\ btask[b].pc = "send" /\ btask[b].tgt = SlowSocket
           /\ c \in btask[b].stable
           /\ c \in DOMAIN active_connections
           /\ active_connections[c] # SlowSocket )
           ~> (Finished(b) /\ \E w \in Sockets \ {SlowSocket} : GotLive(w, b))

\* C13: the history list of a symbol never holds more than HistoryCap
\* entries, between the Redis commands of a cache write included.
C13_HistoryBounded ==
  \A s \in Symbols : Len(history[s]) <= HistoryCap

\* No broadcast_orderbook call is in progress.
Quiescent == \A b \in Tasks : btask[b].pc \in {"idle", "returned", "raised"}

\* The snapshots cached for symbol s so far, by their ingestion numbers: those
\* cached before the run began and those of the calls of the run.
AppendedSeqs(s) ==
  LET n0 == ingested - Cardinality({b \in Tasks : btask[b].pc # "idle"})
  IN  (IF s = FirstOf(Symbols) THEN 1..n0 ELSE {})
        \cup {btask[b].data.seq : b \in {x \in Tasks : Finished(x)
                                           /\ btask[x].symbol = s}}

\* The i-th newest of them.
NthNewest(A, i) == CHOOSE x \in A : Cardinality({y \in A : y > x}) = i - 1

\* The ingestion numbers of the entries get_cached_order_book_history
\* returns.
HistorySeqs(s) ==
  LET r == get_cached_order_book_history(s, HistoryCap, TRUE)
  IN  [i \in DOMAIN r |-> r[i].data.seq]

\* C14: after k cache writes made one after the other, all successful, the
\* history read returns the min(k, HistoryCap) snapshots appended last,
\* newest first.
C14_NewestKept ==
  (Quiescent /\ \A b \in Tasks : Finished(b) => btask[b].cached) =>
    \A s \in Symbols :
      LET A == AppendedSeqs(s)
      IN  HistorySeqs(s) =
            [i \in 1..Min(Cardinality(A), HistoryCap) |-> NthNewest(A, i)]

\* Two more snapshots have been cached for a symbol whose history was full:
\* the two oldest entries are gone.
C14_Witness ==
  /\ Quiescent
  /\ \A b \in Tasks :
       /\ Finished(b) /\ btask[b].cached
       /\ btask[b].symbol = FirstOf(Symbols)
  /\ ingested = HistoryCap + Cardinality(Tasks)
  /\ Len(history[FirstOf(Symbols)]) = HistoryCap

\* C15: a subscribe whose backfill delivers the cached latest snapshot of a
\* symbol has delivered, after its subscription_confirmed and before that
\* snapshot, a historical_data message with the symbol's cached snapshots of
\* today.
C15_BackfillHasHistory ==
  \A w \in Sockets : \A j \in DOMAIN delivered[w] :
    LET log == delivered[w] IN
    (log[j].type = "orderbook_update" /\ log[j].src = "backfill") =>
      \E i \in 1..(j - 1) :
        /\ log[i].type = "historical_data"
        /\ log[i].symbol = log[j].symbol
        /\ log[i].seq >= 1
        /\ \A m \in i..j : log[m].type # "subscription_confirmed"


\* Socket w is inside subscribe_to_symbol for the client registered on it,
\* whose id no other socket has used: the confirmation is being sent, or
\* send_cached_data is reading the cache.
Subscribing(w) ==
  /\ \A w2 \in Sockets \ {w} : htask[w2].cid # htask[w].cid
  /\ \/ htask[w].pc = "send" /\ htask[w].msg.type = "subscription_confirmed"
     \/ htask[w].pc \in {"today", "latest"}
  /\ htask[w].cid \in DOMAIN active_connections
  /\ active_connections[htask[w].cid] = w
  /\ wsOpen[w]

\* A snapshot for symbol s has been ingested.
Ingested(s) == \E b \in Tasks : btask[b].pc # "idle" /\ btask[b].symbol = s

\* C16: when the cache yields nothing for s (nothing ingested for s, or no
\* cache backend), subscribe_to_symbol(c, s) registers c in both indexes and
\* delivers subscription_confirmed; c gets no historical_data and no
\* orderbook_update for s before a snapshot for s is ingested, and none from
\* the backfill when there is no cache backend; every snapshot for s ingested
\* afterwards reaches c: a finished fan-out has missed no subscriber.
C16_SubscribeOnEmptyCache ==
  /\ \A w \in Sockets :
       Subscribing(w) =>
         /\ Member(htask[w].cid, htask[w].sym, symbol_subscriptions)
         /\ htask[w].sym \in client_subscriptions[htask[w].cid]
         /\ \E j \in DOMAIN delivered[w] :
              delivered[w][j] = Msg("subscription_confirmed", htask[w].sym,
                                    None, "none")
  /\ \A w \in Sockets : \A j \in DOMAIN delivered[w] :
       delivered[w][j].type \in {"historical_data", "orderbook_update"} =>
         /\ Ingested(delivered[w][j].symbol)
         /\ ~cache_manager => delivered[w][j].src = "live"
  /\ \A b \in Tasks : Finished(b) => btask[b].missed = {}

\* C16 without its last part: registration, confirmation and the absence of
\* a backfill.
C16_ConfirmedWithoutBackfill ==
  /\ \A w \in Sockets :
       Subscribing(w) =>
         /\ Member(htask[w].cid, htask[w].sym, symbol_subscriptions)
         /\ htask[w].sym \in client_subscriptions[htask[w].cid]
         /\ \E j \in DOMAIN delivered[w] :
              delivered[w][j] = Msg("subscription_confirmed", htask[w].sym,
                                    None, "none")
  /\ \A w \in Sockets : \A j \in DOMAIN delivered[w] :
       delivered[w][j].type \in {"historical_data", "orderbook_update"} =>
         /\ Ingested(delivered[w][j].symbol)
         /\ ~cache_manager => delivered[w][j].src = "live"



\* A level with a negative price or quantity.
NegativeLevel(l) == l[1] < 0 \/ l[2] < 0

\* A malformed raw snapshot: a book side is missing, or some level is
\* negative.
Malformed(d) ==
  \/ "Bid" \notin DOMAIN d
  \/ "Ask" \notin DOMAIN d
  \/ \E side \in {"Bid", "Ask"} : \E i \in DOMAIN d[side] :
       NegativeLevel(d[side][i])

\* Snapshot d of symbol s is in the cache, in the persistence sink, or was
\* delivered to a client.
InCache(s, d) ==
  \/ latest[s] = CacheData(s, d)
  \/ \E i \in DOMAIN history[s] : history[s][i] = CacheData(s, d)
Persisted(s, d) == \E r \in db_records : r.symbol = s /\ r.time = d.seq
DeliveredTo(w, s, d) ==
  \E j \in DOMAIN delivered[w] :
    /\ delivered[w][j].type = "orderbook_update"
    /\ delivered[w][j].symbol = s
    /\ delivered[w][j].seq = d.seq

\* C17: a malformed raw snapshot is rejected at ingestion: broadcast_orderbook
\* never writes it to the cache, never persists it and never delivers it to
\* a subscriber.
C17_MalformedRejected ==
  \A b \in Tasks :
    (btask[b].pc # "idle" /\ Malformed(btask[b].data)) =>
      /\ ~InCache(btask[b].symbol, btask[b].data)
      /\ ~Persisted(btask[b].symbol, btask[b].data)
      /\ \A w \in Sockets : ~DeliveredTo(w, btask[b].symbol, btask[b].data)



\* A snapshot with both sides present and one of them empty, and one with
\* both sides non-empty and well-formed.
EmptySide(d) ==
  /\ "Bid" \in DOMAIN d /\ "Ask" \in DOMAIN d
  /\ d.Bid = << >> \/ d.Ask = << >>
ValidBook(d) ==
  /\ "Bid" \in DOMAIN d /\ "Ask" \in DOMAIN d
  /\ d.Bid # << >> /\ d.Ask # << >>
  /\ ~Malformed(d)

\* The persistence records written for snapshot d of symbol s.
RecordsOf(s, d) == {r \in db_records : r.symbol = s /\ r.time = d.seq}

\* The latest slot of the symbol of request b holds its snapshot, or the
\* snapshot of another request for the symbol, which wrote the slot after it.
LatestWritten(b) ==
  \E b2 \in Tasks :
    /\ btask[b2].pc # "idle"
    /\ btask[b2].symbol = btask[b].symbol
    /\ latest[btask[b].symbol] = CacheData(btask[b2].symbol, btask[b2].data)

\* The clients subscribed to s whose socket is open.
OpenSubscribers(s) ==
  {c \in ClientIds : /\ Member(c, s, symbol_subscriptions)
                     /\ c \in DOMAIN active_connections
                     /\ wsOpen[active_connections[c]]}

\* What store_orderbook_data and cache_orderbook_data owe to request b: an
\* empty-side snapshot is never persisted and, once its cache write
\* succeeded, is in the latest slot (until another request overwrites it)
\* and in the history list; a pending send of its fan-out carries it.  A
\* snapshot with both sides non-empty and valid has exactly one persistence
\* record once its database write succeeded, and none before.
RawNotPersisted(b) ==
  LET t == btask[b]
      s == t.symbol
      d == t.data
  IN  /\ (t.pc # "idle" /\ EmptySide(d)) =>
           /\ RecordsOf(s, d) = {}
           /\ (Finished(b) /\ ~t.cachefail) =>
                /\ LatestWritten(b)
                /\ \E i \in DOMAIN history[s] :
                     history[s][i] = CacheData(s, d)
           /\ (t.pc = "send" /\ wsOpen[t.tgt]) => DeliveredTo(t.tgt, s, d)
      /\ (t.pc # "idle" /\ ValidBook(d)) =>
           Cardinality(RecordsOf(s, d)) =
             IF t.pc = "store" \/ t.dbfail THEN 0 ELSE 1

\* C18: a snapshot with an empty bid or ask side is stored in the cache
\* (latest and history) and never persisted, and once broadcast_orderbook has
\* ended every subscriber with an open socket has received it; a snapshot
\* with both sides non-empty and valid produces exactly one persistence
\* write.
C18_EmptySideNotPersisted ==
  \A b \in Tasks :
    /\ RawNotPersisted(b)
    /\ (Finished(b) /\ EmptySide(btask[b].data)) =>
         \A c \in OpenSubscribers(btask[b].symbol) :
           DeliveredTo(active_connections[c], btask[b].symbol, btask[b].data)

\* C18 for the calls of broadcast_orderbook that return: the same, with the
\* delivery owed by the fan-outs that were not ended by an exception.
C18_EmptySideOnReturn ==
  \A b \in Tasks :
    /\ RawNotPersisted(b)
    /\ (btask[b].pc = "returned" /\ EmptySide(btask[b].data)) =>
         \A c \in OpenSubscribers(btask[b].symbol) :
           DeliveredTo(active_connections[c], btask[b].symbol, btask[b].data)

\* An empty-side snapshot went through: cached, sent to an open subscriber,
\* not persisted; and a valid one was persisted.
C18_Witness ==
  \E b, b2 \in Tasks :
    /\ btask[b].pc = "returned" /\ EmptySide(btask[b].data)
    /\ ~btask[b].cachefail
    /\ InCache(btask[b].symbol, btask[b].data)
    /\ \E c \in OpenSubscribers(btask[b].symbol) :
         DeliveredTo(active_connections[c], btask[b].symbol, btask[b].data)
    /\ btask[b2].pc = "returned" /\ ValidBook(btask[b2].data)
    /\ Cardinality(RecordsOf(btask[b2].symbol, btask[b2].data)) = 1



\* The subscribers of s and the symbols of c, empty without an entry.
SubscribersOf(ss, s) == IF s \in DOMAIN ss THEN ss[s] ELSE {}
SymbolsOf(cs, c) == IF c \in DOMAIN cs THEN cs[c] ELSE {}

\* A step in which the endpoint of socket w, whose transport is open, calls
\* subscribe_to_symbol(c, s).  Either the call raises and the endpoint ends
\* (the only way an endpoint ends on an open transport): then the registry
\* and what the clients have received are unchanged.  Or the confirmation is
\* sent: then c was registered, the two indexes gained exactly c under s and
\* s under c, and a registry that had both already is unchanged.
SubscribeStep(w) ==
  LET c == htask[w].cid
      s == htask'[w].sym
  IN  /\ (htask[w].pc = "recv" /\ wsOpen[w] /\ htask'[w].pc = "closed") =>
           /\ c \notin DOMAIN active_connections
           /\ Reg' = Reg
           /\ delivered' = delivered
      /\ (htask[w].pc = "recv"
            /\ htask'[w].msg.type = "subscription_confirmed") =>
           /\ c \in DOMAIN active_connections
           /\ active_connections' = active_connections
           /\ \A s2 \in Symbols :
                SubscribersOf(symbol_subscriptions', s2) =
                  SubscribersOf(symbol_subscriptions, s2)
                    \cup (IF s2 = s THEN {c} ELSE {})
           /\ DOMAIN client_subscriptions' = DOMAIN client_subscriptions
           /\ \A c2 \in DOMAIN client_subscriptions :
                client_subscriptions'[c2] =
                  client_subscriptions[c2] \cup (IF c2 = c THEN {s} ELSE {})
           /\ (Member(c, s, symbol_subscriptions)
                 /\ s \in client_subscriptions[c]) => Reg' = Reg

\* C19: subscribe_to_symbol(c, s) for a client_id that is not in
\* active_connections fails (HTTPException 400 "Client not connected"),
\* leaves both index directions unchanged and sends no message; for a
\* registered client it adds c to the subscribers of s and s to the symbols
\* of c, and repeating it leaves the registry as it is.
C19_SubscribeChecked == [][\A w \in Sockets : SubscribeStep(w)]_vars

\* An endpoint ended on an open transport: its subscribe was refused.
C19_Witness ==
  \E w \in Sockets :
    /\ htask[w].pc = "closed" /\ wsOpen[w]
    /\ htask[w].cid \notin DOMAIN active_connections



\* Message m is part of a backfill of symbol s.
BackfillOf(m, s) ==
  /\ m.symbol = s
  /\ m.src = "backfill"
  /\ m.type \in {"historical_data", "orderbook_update"}

\* C20: the backfill is pushed once per (connection, symbol): between two
\* backfill messages of the same kind for s in what a connection received,
\* the connection has unsubscribed from s; a subscribe repeated while
\* subscribed delivers no backfill again.
C20_BackfillOnce ==
  \A w \in Sockets : \A s \in Symbols :
    LET log == delivered[w] IN
    \A i, j \in DOMAIN log :
      (i < j /\ BackfillOf(log[i], s) /\ BackfillOf(log[j], s)
         /\ log[i].type = log[j].type) =>
        \E m \in (i + 1)..(j - 1) :
          log[m] = Msg("unsubscription_confirmed", s, None, "none")



\* C21: a get_cached_order_book_history(symbol, limit) call with limit >= 0
\* returns at most limit entries (none for limit = 0), and they are the
\* entries at the head of the history list, newest first.
C21_HistoryLimit ==
  [][cache_read' # cache_read =>
       LET r == cache_read'.result
       IN  /\ Len(r) <= cache_read'.limit
           /\ r = SubSeq(history[cache_read'.symbol], 1, Len(r))]_vars



\* The latest slot of s is read as absent exactly when it was never written,
\* was invalidated, or was last written TtlTicks ago or more.
AbsentWhenDue ==
  \A s \in Symbols :
    (get_cached_order_book_data(s, TRUE) = Absent)
      <=> (cached_ago[s] = Never \/ cached_ago[s] >= TtlTicks)

\* A step of cache_order_book_data for request b: its SETEX, when Redis
\* accepts it, overwrites the latest slot and restarts its expiry; the
\* EXPIRE that ends a call returning True restarts the expiry of the history
\* list.
RestartsTtl(b) ==
  LET s == btask[b].symbol
      d == btask[b].data
  IN  /\ (btask[b].pc = "setex" /\ btask'[b].pc = "lpush") =>
           /\ latest'[s] = CacheData(s, d)
           /\ latest_ttl'[s] = TtlTicks
      /\ (btask[b].pc = "expire" /\ btask'[b].cached) =>
           (history'[s] # << >> => history_ttl'[s] = TtlTicks)

Crossed(d) ==
  /\ Side(d, "Bid") # << >> /\ Side(d, "Ask") # << >>
  /\ MinPrice(Side(d, "Ask")) < MaxPrice(Side(d, "Bid"))

\* Message m is the live update of request b.
LiveOf(m, b) ==
  /\ m.type = "orderbook_update" /\ m.src = "live"
  /\ m.symbol = btask[b].symbol /\ m.seq = btask[b].data.seq

\* C23: a crossed book (best ask < best bid) is not rejected: once
\* broadcast_orderbook has ended every subscriber with an open socket has
\* received the snapshot, and every message that carries it has a warning
\* flag set.
C23_CrossedBookFlagged ==
  \A b \in Tasks :
    (btask[b].pc # "idle" /\ Crossed(btask[b].data)) =>
      /\ \A w \in Sockets : \A j \in DOMAIN delivered[w] :
           LiveOf(delivered[w][j], b) =>
             /\ "warning" \in DOMAIN delivered[w][j]
             /\ delivered[w][j].warning
      /\ Finished(b) =>
           \A c \in OpenSubscribers(btask[b].symbol) :
             \E j \in DOMAIN delivered[active_connections[c]] :
               LiveOf(delivered[active_connections[c]][j], b)



\* C24: the subscription index agrees in both directions: client c is in
\* symbol_subscriptions[s] exactly when s is in client_subscriptions[c].
C24_IndexBothWays ==
  \A c \in ClientIds : \A s \in Symbols :
    Member(c, s, symbol_subscriptions)
      <=> s \in SymbolsOf(client_subscriptions, c)



\* The endpoint of socket w issues a disconnect for its client_id in this
\* step: receive_text raised WebSocketDisconnect, or the send of
\* send_personal_message raised.
SignalsDisconnect(w) ==
  \/ htask[w].pc = "recv" /\ ~wsOpen[w] /\ htask'[w].pc = "closed"
  \/ htask[w].pc = "send" /\ ~wsOpen[htask[w].tgt] /\ htask'[w].pc # "send"

\* C25: teardown takes effect once per connection: a disconnect signal for a
\* connection whose registration a disconnect has already removed raises
\* nothing and changes no registry state, neither that connection's nor
\* another connection's.
C25_TeardownOnce ==
  [][\A w \in Sockets :
       (w \in torn /\ SignalsDisconnect(w)) => Reg' = Reg]_vars



\* No client_id is used by two sockets: the endpoints act on disjoint sets of
\* connections.
DisjointIds ==
  \A w1, w2 \in Sockets :
    (w1 # w2 /\ htask[w1].cid # None) => htask[w1].cid # htask[w2].cid

\* The registry after the registry part of a call on client c.
Call(R, op, c, s) ==
  CASE op = "subscribe" -> IF c \in DOMAIN R.ac THEN register(R, c, s) ELSE R
    [] op = "unsubscribe" -> unregister(R, c, s)
    [] OTHER -> disconnect(R, c)

\* Two calls on different clients give the same registry in both orders.
CallsCommute ==
  \A c1, c2 \in ClientIds :
    c1 < c2 =>
      \A op1, op2 \in {"subscribe", "unsubscribe", "disconnect"} :
        \A s1, s2 \in Symbols :
          Call(Call(Reg, op1, c1, s1), op2, c2, s2)
            = Call(Call(Reg, op2, c2, s2), op1, c1, s1)

\* A step of the endpoint of socket w leaves the entries of every other
\* client as they are, in both indexes and in active_connections.
OwnEntriesOnly(w) ==
  htask'[w] # htask[w] =>
    \A c2 \in ClientIds \ {htask'[w].cid} :
      /\ (c2 \in DOMAIN client_subscriptions')
           <=> (c2 \in DOMAIN client_subscriptions)
      /\ SymbolsOf(client_subscriptions', c2)
           = SymbolsOf(client_subscriptions, c2)
      /\ \A s \in Symbols :
           Member(c2, s, symbol_subscriptions')
             <=> Member(c2, s, symbol_subscriptions)
      /\ (c2 \in DOMAIN active_connections')
           <=> (c2 \in DOMAIN active_connections)
      /\ c2 \in DOMAIN active_connections =>
           active_connections'[c2] = active_connections[c2]

\* C26: when the tasks act on disjoint sets of connections, the registry
\* part of every subscribe, unsubscribe and disconnect call changes the
\* entries of its own client only, and calls on different clients commute:
\* whatever the interleaving, both indexes end as after a serial execution
\* of the same calls.
C26_DisjointCallsSerial ==
  /\ [](DisjointIds => CallsCommute)
  /\ [][DisjointIds' => \A w \in Sockets : OwnEntriesOnly(w)]_vars

\* Two calls on different clients are in flight at the same time.
C26_Witness ==
  /\ DisjointIds
  /\ \E w1, w2 \in Sockets :
       /\ w1 # w2
       /\ htask[w1].pc = "send" /\ htask[w2].pc = "send"
       /\ htask[w1].msg.type = "subscription_confirmed"
       /\ htask[w2].msg.type = "unsubscription_confirmed"
       /\ htask[w1].sym = htask[w2].sym



\* The prices of the well-formed levels of a side, and the sum of their
\* quantities.
PricesOf(levels) ==
  {levels[i][1] : i \in {j \in DOMAIN levels : Len(levels[j]) >= 2}}

RECURSIVE QtyUpTo(_, _)
QtyUpTo(levels, n) ==
  IF n = 0 THEN 0
  ELSE QtyUpTo(levels, n - 1)
         + (IF Len(levels[n]) >= 2 THEN levels[n][2] ELSE 0)

\* Record r carries the metrics of snapshot d.
MetricsOf(r, d) ==
  LET bids == PricesOf(d.Bid)
      asks == PricesOf(d.Ask)
  IN  /\ r.best_bid \in bids /\ \A p \in bids : p <= r.best_bid
      /\ r.best_ask \in asks /\ \A p \in asks : p >= r.best_ask
      /\ r.spread = r.best_ask - r.best_bid
      /\ r.mid_price.num = r.best_bid + r.best_ask /\ r.mid_price.den = 2
      /\ r.bid_volume = QtyUpTo(d.Bid, Len(d.Bid))
      /\ r.ask_volume = QtyUpTo(d.Ask, Len(d.Ask))
      /\ r.total_volume = r.bid_volume + r.ask_volume
      /\ r.best_bid + r.best_ask <= 0 => r.spread_percentage.num = 0

\* C27: every record handed to the persistence sink is that of a snapshot
\* with both sides non-empty, and has best_bid = the highest bid price,
\* best_ask = the lowest ask price, spread = best_ask - best_bid, mid_price =
\* (best_bid + best_ask) / 2, bid_volume and ask_volume = the sums of the
\* quantities of each side, total_volume = their sum, and spread_percentage
\* = 0 when mid_price <= 0.
C27_RecordMetrics ==
  \A r \in db_records :
    \E b \in Tasks :
      /\ btask[b].pc # "idle"
      /\ btask[b].symbol = r.symbol /\ btask[b].data.seq = r.time
      /\ MetricsOf(r, btask[b].data)

\* Records were written for a snapshot with a mid price of zero and for one
\* whose best bid is not its first level.
C27_Witness ==
  /\ \E r \in db_records : r.mid_price.num <= 0 /\ r.spread > 0
  /\ \E r \in db_records : r.best_bid # r.bid_levels[1][1]



\* A cache write for symbol s is in progress, and one has failed.
CacheWriting(s) ==
  \E b \in Tasks :
    /\ btask[b].symbol = s
    /\ btask[b].pc \in {"store", "setex", "lpush", "ltrim", "expire"}
CacheFailed(s) ==
  \E b \in Tasks : btask[b].symbol = s /\ btask[b].cachefail

\* C28: when no cache write for s is in progress (and none was cut short by
\* a Redis error) and the keys of s have not expired, the latest slot of s
\* holds the entry at the head of the history list of s.
C28_LatestIsHead ==
  \A s \in Symbols :
    (~CacheWriting(s) /\ ~CacheFailed(s)
       /\ latest[s] # Absent /\ history[s] # << >>) =>
      latest[s] = Head(history[s])



\* C29: active_connections and client_subscriptions have the same keys in
\* every reachable state: a client that passes the active_connections check
\* of subscribe_to_symbol has its set in client_subscriptions.
C29_SameKeys == DOMAIN active_connections = DOMAIN client_subscriptions

\* A connection was torn down while another client stays registered.
C29_Witness ==
  /\ torn # {}
  /\ \E c \in DOMAIN active_connections : client_subscriptions[c] # {}



\* The entries of the history list of symbol s.
HistoryOf(s) == {history[s][i] : i \in 1..Len(history[s])}

\* C30: cache_order_book_data is all-or-nothing.  A call that returned False
\* left its snapshot in neither the latest slot nor the history list; a call
\* that returned True left it in the history list, and the latest slot holds
\* it or the snapshot of a later request.
C30_CacheAllOrNothing ==
  \A b \in Tasks :
    LET t == btask[b]
        e == CacheData(t.symbol, t.data)
    IN  /\ t.cachefail => (latest[t.symbol] # e /\ e \notin HistoryOf(t.symbol))
        /\ t.cached =>
             /\ e \in HistoryOf(t.symbol)
             /\ latest[t.symbol] # Absent
             /\ latest[t.symbol].timestamp >= t.data.seq


====
